---- MODULE Spec2Model ----
(***************************************************************************)
(* Kernel (src/parcels/kernel.py): the execution state machine of          *)
(* Kernel.execute / Kernel.execute_python over a particle population, and   *)
(* the life cycle of the compiled library of a JIT kernel                   *)
(* (compile / load_lib / remove_lib / __del__).                             *)
(*                                                                          *)
(* Times and step sizes are integer multiples of one time unit.             *)
(***************************************************************************)
EXTENDS Integers, Sequences, FiniteSets, TLC

----------------------------------------------------------------------------
(* Bounds of the model *)

NumParticles == 2   \* particles in the population handed to execute
MaxTime == 2        \* particle times and endtime range over 0..MaxTime
MaxCount == 2       \* the call counters of the collaborators saturate here

TimeVals == 0..MaxTime

----------------------------------------------------------------------------
(* ErrorCode (parcels.tools.error) *)

Evaluate == "Evaluate"
Repeat == "Repeat"
Success == "Success"
Delete == "Delete"
StopExecution == "StopExecution"
ErrorOutOfBounds == "ErrorOutOfBounds"
ErrorThroughSurface == "ErrorThroughSurface"
ErrorTimeExtrapolation == "ErrorTimeExtrapolation"
Error == "Error"

ErrorStates ==
    {ErrorOutOfBounds, ErrorThroughSurface, ErrorTimeExtrapolation, Error}

ErrorCode == {Evaluate, Repeat, Success, Delete, StopExecution} \cup ErrorStates

----------------------------------------------------------------------------
(* numpy / builtins used by execute_python *)

abs(x) == IF x < 0 THEN -x ELSE x

sign(x) == IF x > 0 THEN 1 ELSE IF x < 0 THEN -1 ELSE 0

min(a, b) == IF a <= b THEN a ELSE b

\* np.isclose(a, b): |a - b| <= atol + rtol * |b| with atol = 1e-8 and
\* rtol = 1e-5, both sides scaled by 1e8
isclose(a, b) == 100000000 * abs(a - b) <= 1 + 1000 * abs(b)

----------------------------------------------------------------------------
(* Particles.  lon is the particle variable the kernels read and write: the  *)
(* zone of the field domain the particle is in.                             *)

InRange == "in_range"
LonVals ==
    {InRange, "out_of_bounds", "through_surface", "time_extrapolation",
     "halt", "sink"}

NoWrite == "NoWrite"
Absent == "Absent"

VARIABLES
    pc,               \* where execute stands
    inwhile,          \* execute is inside its recovery loop (line 422)
    k,                \* execute_python: position in the population
    inloop,           \* execute_python: inside the while loop of particle k
    particle,         \* particle id -> its variables
    particles_a,      \* pset.particles_a: the sub-batches, each a list of ids
    error_particles,  \* execute's local list error_particles
    e,                \* position of the for loop over error_particles
    endtime, dt,      \* arguments of execute
    output_file,      \* TRUE iff execute was given an output_file
    pyfunc,           \* the user function of the kernel
    recovery,         \* the caller's recovery argument: <<>> is None
    recovery_base_map,\* parcels.tools.error.recovery_map
    recovery_map,     \* execute's local resolved map
    written,          \* id -> times the particle was handed to output_file.write
    particle0,        \* time and lon of the particles when execute was called
    unmapped,         \* the particles execute found in a state without recovery
    metStop,          \* execute returned at line 426
    forced,           \* id -> the time and dt of a particle whose last outcome line 313 forced to Repeat
    lib,              \* self._lib: <<>> is None, <<b>> the handle of basename b
    function,         \* self._function: <<>> unset, <<b>> bound in the handle of b
    basename,         \* the basename of src_file, lib_file and log_file
    files,            \* the files on disk, as <<basename, extension>>
    opened,           \* basename -> handles of its library opened and not closed
    alive,            \* the Kernel object has not been destroyed
    delete_cfiles,    \* self.delete_cfiles
    clock,            \* time.time()
    exc,              \* the exception the last library operation raised
    called,           \* the last call of self._function: <<>> is none yet
    kernels,          \* the Kernel objects that stay referenced, in order of construction
    last,             \* the last construction or merge and how it ended
    rank_pc,          \* rank -> where the rank stands in its name resolution
    rank_key,         \* rank -> the identity its basename is built from
    rank_lib,         \* rank -> path.isfile(self.lib_file) on that rank
    chan,             \* rank -> the broadcasts of rank 0 it has yet to receive
    calls,            \* rank -> calls of remove_lib the rank has made
    eager             \* bcast returns on rank 0 before the others have received

execVars ==
    <<pc, inwhile, k, inloop, particle, particles_a, error_particles, e,
      endtime, dt, output_file, pyfunc, recovery, recovery_base_map,
      recovery_map, written, particle0, unmapped, metStop, forced>>

libVars ==
    <<lib, function, basename, files, opened, alive, delete_cfiles, clock,
      exc, called>>

buildVars == <<kernels, last>>

mpiVars == <<rank_pc, rank_key, rank_lib, chan, calls, eager>>

\* the variables of construction, merge and rank coordination
otherVars == <<buildVars, mpiVars>>

vars == <<execVars, libVars, otherVars>>

----------------------------------------------------------------------------
(* The population *)

RECURSIVE Flat(_)
\* [p for subfield in pset.particles_a for p in subfield]
Flat(pa) == IF pa = <<>> THEN <<>> ELSE Head(pa) \o Flat(Tail(pa))

InPset(i) == \E j \in 1..Len(Flat(particles_a)) : Flat(particles_a)[j] = i

\* A population of n particles in two sub-batches (one when n = 1)
InitialParticlesA(n) ==
    IF n = 1 THEN <<(<<1>>)>>
    ELSE <<[i \in 1..(n \div 2) |-> i],
           [i \in 1..(n - n \div 2) |-> n \div 2 + i]>>

Bump(c) == IF c < MaxCount THEN c + 1 ELSE c

----------------------------------------------------------------------------
(* The user kernels.  One run of a kernel body on a particle is what it     *)
(* writes to the particle and how it ends: the value it returns or the      *)
(* condition it raises.                                                     *)

Exceptions ==
    {"FieldOutOfBoundError", "FieldOutOfBoundSurfaceError",
     "TimeExtrapolationError", "Exception"}

Returns == {"None", Success, Repeat, Delete, StopExecution, Evaluate, Error}

Quiet(ret) == [state |-> NoWrite, dt |-> <<>>, lon |-> <<>>, ret |-> ret]

\* "SampleField" samples the fields at the particle's position, stops the run
\* in the zone "halt" and deletes the particle in the zone "sink";
\* "AlwaysOutOfBounds" raises the out-of-bounds condition on every call;
\* "AnyKernel" is a user function about which nothing is known.
KernelRuns(pf, p) ==
    CASE pf = "SampleField" ->
            CASE p.lon = "out_of_bounds" -> {Quiet("FieldOutOfBoundError")}
              [] p.lon = "through_surface" -> {Quiet("FieldOutOfBoundSurfaceError")}
              [] p.lon = "time_extrapolation" -> {Quiet("TimeExtrapolationError")}
              [] p.lon = "halt" -> {Quiet(StopExecution)}
              [] p.lon = "sink" -> {[Quiet("None") EXCEPT !.state = Delete]}
              [] OTHER -> {Quiet("None")}
      [] pf = "AlwaysOutOfBounds" -> {Quiet("FieldOutOfBoundError")}
      [] pf = "AnyKernel" ->
            [state : {NoWrite, Delete, ErrorTimeExtrapolation, StopExecution},
             dt : {<<>>, <<1>>, <<2>>},
             lon : {<<>>, <<InRange>>, <<"out_of_bounds">>},
             ret : Returns \cup Exceptions]

PyFuncs == {"SampleField", "AlwaysOutOfBounds", "AnyKernel"}

\* the particle after the statements of the kernel body
Body(p, run) ==
    [p EXCEPT !.state = IF run.state = NoWrite THEN @ ELSE run.state,
              !.dt = IF run.dt = <<>> THEN @ ELSE run.dt[1],
              !.lon = IF run.lon = <<>> THEN @ ELSE run.lon[1]]

----------------------------------------------------------------------------
(* execute_python, lines 284-356 *)

\* line 289 without the clamp to the time left before endtime
DtPosUnclamped(p) == abs(p.dt)

\* lines 289, 334, 351
DtPos(p) == min(abs(p.dt), abs(endtime - p.time))

\* line 293: the particle is not run in this pass
Skipped(p) ==
    /\ sign(endtime - p.time) # sign(dt) \/ isclose(DtPos(p), 0)
    /\ ~isclose(dt, 0)

\* line 298
Looping(p) == p.state \in {Evaluate, Repeat} \/ isclose(dt, 0)

\* lines 307-327: the outcome res of one invocation
Res(run, after, state_prev, pdt_prekernels) ==
    IF run.ret \in Exceptions
    THEN CASE run.ret = "FieldOutOfBoundError" -> ErrorOutOfBounds
           [] run.ret = "FieldOutOfBoundSurfaceError" -> ErrorThroughSurface
           [] run.ret = "TimeExtrapolationError" -> ErrorTimeExtrapolation
           [] OTHER -> Error
    ELSE LET r0 == IF run.ret = "None" THEN Success ELSE run.ret
             r1 == IF r0 = Success /\ after.state # state_prev
                   THEN after.state ELSE r0
         IN  IF r1 = Success /\ ~isclose(after.dt, pdt_prekernels)
             THEN Repeat ELSE r1

\* particle.update_next_dt() with no step requested by the kernel
update_next_dt(p) == p

\* lines 330-342: time update after Success or Delete
Advance(p, res) ==
    LET moved == update_next_dt([p EXCEPT !.time = @ + p.dt])
        dt_pos == DtPos(moved)
        sign_end_part == sign(endtime - moved.time)
        res2 == IF res # Delete /\ ~isclose(dt_pos, 0) /\ sign_end_part = sign(dt)
                THEN Evaluate ELSE res
    IN  [moved EXCEPT !.state = res2]

\* lines 345-346 without the restore of lines 347-350
RollbackNothing(p, back, res) == [p EXCEPT !.state = res]

\* lines 346-350: roll back every variable but dt and state
Rollback(p, back, res) ==
    [back EXCEPT !.state = res, !.dt = p.dt]

\* lines 300-356: one iteration of the while loop on particle p
Iteration(p, run) ==
    LET pdt_prekernels == sign(dt) * DtPos(p)
        before == [p EXCEPT !.dt = pdt_prekernels]
        after == Body(before, run)
        res == Res(run, after, p.state, pdt_prekernels)
    IN  IF res \in {Success, Delete}
        THEN Advance(after, res)
        ELSE Rollback(after, p, res)

\* lines 307-314: pyfunc returned Success (or None), the particle's state is
\* the one before the call, and line 313 turns the outcome into Repeat
\* because p.dt is not the step set at line 304
ForcedRepeat(p, run) ==
    LET pdt_prekernels == sign(dt) * DtPos(p)
        after == Body([p EXCEPT !.dt = pdt_prekernels], run)
    IN  /\ run.ret \in {"None", Success}
        /\ after.state = p.state
        /\ ~isclose(after.dt, pdt_prekernels)

\* the while loop goes round again after this iteration (lines 298, 343, 356)
Continues(p, run) ==
    LET pdt_prekernels == sign(dt) * DtPos(p)
        after == Body([p EXCEPT !.dt = pdt_prekernels], run)
        res == Res(run, after, p.state, pdt_prekernels)
    IN  /\ res \in {Success, Delete}
        /\ ~isclose(dt, 0)
        /\ Iteration(p, run).state \in {Evaluate, Repeat}

----------------------------------------------------------------------------
(* Recovery kernels: what one run writes to the particle, or that it raises *)

RecoveryKernels == {"Repair", "Remove", "AnyRecovery"}

RecoveryRuns(rk) ==
    CASE rk = "Repair" -> {[state |-> NoWrite, lon |-> <<InRange>>, raises |-> FALSE]}
      [] rk = "Remove" -> {[state |-> Delete, lon |-> <<>>, raises |-> FALSE]}
      [] rk = "AnyRecovery" ->
            [state : {NoWrite, Delete, StopExecution, ErrorOutOfBounds, Repeat},
             lon : {<<>>, <<InRange>>},
             raises : BOOLEAN]

\* a recovery map: error state -> recovery kernel, or Absent
Map(oob, surf, tex, err) ==
    [s \in ErrorStates |->
        CASE s = ErrorOutOfBounds -> oob
          [] s = ErrorThroughSurface -> surf
          [] s = ErrorTimeExtrapolation -> tex
          [] OTHER -> err]

\* the system's default map: out-of-bounds and through-surface share the
\* kernel that puts the particle back in range
BaseMap == Map("Repair", "Repair", Absent, Absent)

\* the recovery arguments execute is called with
CallerRecoveries ==
    {<<>>,
     <<Map("AnyRecovery", Absent, Absent, Absent)>>,
     <<Map(Absent, "Remove", "Repair", Absent)>>}

\* lines 398-401 without the through-surface entry of line 401
FixedRecoveryAsGiven(rec) == rec

\* lines 398-401: the caller's mapping after execute has looked at it
FixedRecovery(rec) ==
    IF rec = <<>> THEN <<>>
    ELSE IF rec[1][ErrorOutOfBounds] # Absent /\ rec[1][ErrorThroughSurface] = Absent
         THEN <<[rec[1] EXCEPT ![ErrorThroughSurface] = rec[1][ErrorOutOfBounds]]>>
         ELSE rec

\* lines 402-403: recovery_base_map.copy() updated with recovery
Resolved(base, rec) ==
    IF rec = <<>> THEN base
    ELSE [s \in ErrorStates |-> IF rec[1][s] # Absent THEN rec[1][s] ELSE base[s]]

\* p.state in recovery_map
Mapped(s) == s \in ErrorStates /\ recovery_map[s] # Absent

----------------------------------------------------------------------------
(* Particle methods (parcels.particle) *)

reset_state(p) == [p EXCEPT !.state = Evaluate]

delete(p) == [p EXCEPT !.state = Delete]

isComputed(p) == p.state = Success

----------------------------------------------------------------------------
(* The compiled library of a JIT kernel, lines 155-218.  A basename is the   *)
(* value of time.time() that went into its cache key.                       *)

MaxClock == 2       \* compilations in one history
MaxOpen == 2        \* library handles opened and not yet closed

Basenames == 0..MaxClock
Extensions == {"c", "so", "log"}

src_file(b) == <<b, "c">>
lib_file(b) == <<b, "so">>
log_file(b) == <<b, "log">>

\* the three files of basename b
Triad(b) == {src_file(b), lib_file(b), log_file(b)}

\* path.isfile
isfile(f) == f \in files

\* handles opened by this Kernel and not closed
OpenHandles(op) ==
    LET RECURSIVE Sum(_)
        Sum(S) == IF S = {} THEN 0
                  ELSE LET b == CHOOSE x \in S : TRUE IN op[b] + Sum(S \ {b})
    IN  Sum(Basenames)

\* _ctypes.dlclose(self._lib._handle); self._lib = None (lines 172-175, 188-191)
Unloaded(op) == IF lib = <<>> THEN op ELSE [op EXCEPT ![lib[1]] = @ - 1]

\* the library state of a kernel that is not under study
LibIdle ==
    /\ lib = <<>>
    /\ function = <<>>
    /\ basename = 0
    /\ files = {}
    /\ opened = [b \in Basenames |-> 0]
    /\ alive = TRUE
    /\ delete_cfiles = TRUE
    /\ clock = 0
    /\ exc = "none"
    /\ called = <<>>

\* remove(s) for s in seq, in order: stops at the first file that is missing
RECURSIVE RemoveFiles(_, _)
RemoveFiles(fs, seq) ==
    IF seq = <<>> THEN [files |-> fs, ok |-> TRUE]
    ELSE IF Head(seq) \notin fs THEN [files |-> fs, ok |-> FALSE]
    ELSE RemoveFiles(fs \ {Head(seq)}, Tail(seq))

\* lines 162-166 and 203-207: the basename from a cache key taken now
NewBasename == clock

----------------------------------------------------------------------------
(* Construction and merge of Kernel objects, lines 71-166 and 451-470.  A   *)
(* name, a source text, a statement list and a variable list are sequences  *)
(* of tokens, so that + on them is concatenation.                           *)

MaxKernels == 2     \* Kernel objects that stay referenced at a time

\* what inspect.getfullargspec tells of a user function: the number of its
\* positional parameters and whether it has a *args parameter
ArgSpecs ==
    {[args |-> 2, varargs |-> FALSE], [args |-> 3, varargs |-> FALSE],
     [args |-> 3, varargs |-> TRUE], [args |-> 4, varargs |-> FALSE]}

\* the user functions a Kernel is built from
Callables ==
    [name : {"f"}, argspec : {s \in ArgSpecs : ~s.varargs}]
        \cup [name : {"g"}, argspec : {s \in ArgSpecs : s.varargs}]

\* the parameters of a function, *args included
Parameters(argspec) ==
    SubSeq(<<"particle", "fieldset", "time", "depth">>, 1, argspec.args)
        \o (IF argspec.varargs THEN <<"extra">> ELSE <<>>)

\* the particle types: name, uses_jit and _cache_key
PTypes ==
    {[name |-> "P", uses_jit |-> TRUE, cache_key |-> "lon:f32"],
     [name |-> "Q", uses_jit |-> FALSE, cache_key |-> "lon:f64"]}

FieldSets == {"F", "G"}

\* the (fieldset, ptype) pairs kernels are constructed for
Owners ==
    {<<"F", CHOOSE t \in PTypes : t.uses_jit>>,
     <<"G", CHOOSE t \in PTypes : t.uses_jit>>,
     <<"F", CHOOSE t \in PTypes : ~t.uses_jit>>}

\* lines 122-125
numkernelargs(argspec) == argspec.args

\* kernelgen.field_args: the fields the statements sample, in the order of
\* their first use
RECURSIVE field_args(_)
field_args(body) ==
    IF body = <<>> THEN <<>>
    ELSE LET f == IF Head(body) = "f" THEN "U" ELSE "V"
             rest == field_args(Tail(body))
         IN  <<f>> \o SelectSeq(rest, LAMBDA x : x # f)

\* lines 179-184: the text that is hashed, and the time it is hashed at
cache_key(name, ptype, fields, now) ==
    [text |-> name \o <<ptype.cache_key>> \o fields, time |-> now]

\* __init__, lines 71-166: the exception raised or the Kernel object built,
\* and whether the code generators were reached
Kernel(fieldset, ptype, funcname, funccode, body, argspec, funcvars, dcf, now) ==
    IF numkernelargs(argspec) # 3
    THEN [exc |-> "AssertionError", generated |-> FALSE, kernel |-> <<>>]
    ELSE [exc |-> "none",
          generated |-> ptype.uses_jit,
          kernel |-> <<[fieldset |-> fieldset,
                        ptype |-> ptype,
                        funcname |-> funcname,
                        funccode |-> funccode,
                        body |-> body,
                        argspec |-> argspec,
                        funcvars |-> funcvars,
                        delete_cfiles |-> dcf,
                        name |-> <<ptype.name>> \o funcname,
                        key |-> IF ptype.uses_jit
                                THEN <<cache_key(<<ptype.name>> \o funcname,
                                                 ptype, field_args(body), now)>>
                                ELSE <<>>]>>]

\* Kernel(fieldset, ptype, pyfunc=c, delete_cfiles=dcf)
FromCallable(fieldset, ptype, c, dcf, now) ==
    Kernel(fieldset, ptype, <<c.name>>, <<c.name>>, <<c.name>>, c.argspec,
           Parameters(c.argspec), dcf, now)

\* a merge that puts the statements of b before those of a
mergeSwapped(a, b, now) ==
    Kernel(a.fieldset, a.ptype, a.funcname \o b.funcname,
           a.funccode \o b.funccode, b.body \o a.body, a.argspec,
           a.funcvars \o b.funcvars, a.delete_cfiles /\ b.delete_cfiles, now)

\* merge, lines 451-460
merge(a, b, now) ==
    Kernel(a.fieldset, a.ptype, a.funcname \o b.funcname,
           a.funccode \o b.funccode, a.body \o b.body, a.argspec,
           a.funcvars \o b.funcvars, a.delete_cfiles /\ b.delete_cfiles, now)

\* no construction has been made
NoOperation ==
    [op |-> "none", exc |-> "none", generated |-> FALSE,
     argspec |-> [args |-> 3, varargs |-> FALSE], agree |-> TRUE,
     added |-> FALSE]

BuildIdle ==
    /\ kernels = <<>>
    /\ last = NoOperation

\* no rank coordination is under study
MpiIdle ==
    /\ rank_pc = <<>>
    /\ rank_key = <<>>
    /\ rank_lib = <<>>
    /\ chan = <<>>
    /\ calls = <<>>
    /\ eager = TRUE

----------------------------------------------------------------------------
\* The inputs of one call of execute.  The population has 1..NumParticles
\* particles that start at the same time t0 with particle.dt = dt; the kernel
\* about which nothing is known runs on a population of one particle, the
\* position-driven kernel on populations of every size.
Init ==
    /\ pc = "call"
    /\ inwhile = FALSE
    /\ k = 1
    /\ inloop = FALSE
    /\ endtime \in {0, MaxTime}
    /\ dt \in {-1, 0, 1, 2}
    /\ pyfunc \in PyFuncs
    /\ \E n \in 1..NumParticles : \E t0 \in TimeVals :
       \E st \in {Evaluate, Success} :
          /\ pyfunc = "AnyKernel" => n = 1
          /\ particles_a = InitialParticlesA(n)
          /\ particle \in [1..n -> [state : {st}, time : {t0}, dt : {dt},
                                    lon : IF pyfunc = "SampleField"
                                          THEN LonVals ELSE {InRange}]]
    /\ error_particles = <<>>
    /\ e = 1
    /\ output_file \in BOOLEAN
    /\ recovery \in CallerRecoveries
    /\ recovery_base_map = BaseMap
    /\ recovery_map = recovery_base_map
    /\ written = [i \in DOMAIN particle |-> 0]
    /\ particle0 = [i \in DOMAIN particle |->
                      [time |-> particle[i].time, lon |-> particle[i].lon]]
    /\ unmapped = {}
    /\ metStop = FALSE
    /\ forced = [i \in DOMAIN particle |-> <<>>]
    /\ LibIdle
    /\ BuildIdle
    /\ MpiIdle

----------------------------------------------------------------------------
(* execute, lines 358-413: reset the particles, resolve the recovery map    *)
(* and start the first pass                                                 *)

Execute ==
    /\ pc = "call"
    /\ particle' = [i \in DOMAIN particle |->
                       IF InPset(i) THEN reset_state(particle[i]) ELSE particle[i]]
    /\ recovery' = FixedRecovery(recovery)
    /\ recovery_map' = Resolved(recovery_base_map, FixedRecovery(recovery))
    /\ pc' = "pass"
    /\ k' = 1
    /\ inloop' = FALSE
    /\ UNCHANGED <<inwhile, particles_a, error_particles, e, endtime, dt,
                   output_file, pyfunc, recovery_base_map, written, metStop,
                   particle0, unmapped,
                   forced, libVars, otherVars>>

\* execute_python lines 284-298: the next particle of the pass
EnterParticle ==
    /\ pc = "pass"
    /\ ~inloop
    /\ k <= Len(Flat(particles_a))
    /\ LET i == Flat(particles_a)[k]
           p == particle[i]
       IN  IF Skipped(p)
           THEN /\ particle' = [particle EXCEPT ![i].state =
                                   IF abs(p.time) >= abs(endtime) THEN Success ELSE @]
                /\ k' = k + 1
                /\ inloop' = FALSE
           ELSE /\ particle' = particle
                /\ IF Looping(p)
                   THEN inloop' = TRUE /\ k' = k
                   ELSE inloop' = FALSE /\ k' = k + 1
    /\ UNCHANGED <<pc, inwhile, particles_a, error_particles, e, endtime, dt,
                   output_file, pyfunc, recovery, recovery_base_map,
                   recovery_map, written, metStop, particle0, unmapped,
                   forced, libVars, otherVars>>

\* execute_python lines 298-356: one invocation of pyfunc on particle k
InvokeKernel ==
    /\ pc = "pass"
    /\ inloop
    /\ LET i == Flat(particles_a)[k]
           p == particle[i]
       IN  \E run \in KernelRuns(pyfunc, p) :
              /\ particle' = [particle EXCEPT ![i] = Iteration(p, run)]
              /\ IF Continues(p, run)
                 THEN inloop' = TRUE /\ k' = k
                 ELSE inloop' = FALSE /\ k' = k + 1
              /\ forced' = [forced EXCEPT ![i] =
                               IF ForcedRepeat(p, run)
                               THEN <<[time |-> p.time,
                                       dt |-> Iteration(p, run).dt]>>
                               ELSE <<>>]
    /\ UNCHANGED <<pc, inwhile, particles_a, error_particles, e, endtime, dt,
                   output_file, pyfunc, recovery, recovery_base_map,
                   recovery_map, written, metStop, particle0, unmapped,
                   libVars, otherVars>>

\* lines 420 and 449 with Repeat taken for a settled state
ErrorParticlesLax(pa, ps) ==
    SelectSeq(Flat(pa), LAMBDA i : ps[i].state \notin {Success, Evaluate, Repeat})

\* lines 420 and 449
ErrorParticles(pa, ps) ==
    SelectSeq(Flat(pa), LAMBDA i : ps[i].state \notin {Success, Evaluate})

\* the end of execute_python: line 416 after the first pass, lines 449 and
\* 422 after a pass of the recovery loop
EndPass ==
    /\ pc = "pass"
    /\ ~inloop
    /\ k > Len(Flat(particles_a))
    /\ IF inwhile
       THEN /\ error_particles' = ErrorParticles(particles_a, particle)
            /\ e' = 1
            /\ pc' = IF error_particles' = <<>> THEN "returned" ELSE "recover"
       ELSE /\ pc' = "write"
            /\ UNCHANGED <<error_particles, e>>
    /\ UNCHANGED <<inwhile, k, inloop, particle, particles_a, endtime, dt,
                   output_file, pyfunc, recovery, recovery_base_map,
                   recovery_map, written, metStop, particle0, unmapped,
                   forced, libVars, otherVars>>

\* remove_deleted lines 372-389: the particles in state Delete of every
\* sub-batch
dparticles(pa, ps) ==
    {i \in DOMAIN ps :
        \E s \in 1..Len(pa) : \E j \in 1..Len(pa[s]) :
            pa[s][j] = i /\ ps[i].state = Delete}

\* remove_deleted lines 372-392: the particles in state Delete are handed to
\* output_file.write
RemoveDeletedWrite ==
    /\ pc = "write"
    /\ written' = [i \in DOMAIN particle |->
                      IF output_file /\ i \in dparticles(particles_a, particle)
                      THEN Bump(written[i]) ELSE written[i]]
    /\ pc' = "remove"
    /\ UNCHANGED <<inwhile, k, inloop, particle, particles_a,
                   error_particles, e, endtime, dt, output_file, pyfunc,
                   recovery, recovery_base_map, recovery_map, metStop, particle0, unmapped,
                   forced, libVars, otherVars>>

\* pset.remove(indices): every sub-batch without its particles in state Delete
remove(pa, ps) ==
    [s \in 1..Len(pa) |-> SelectSeq(pa[s], LAMBDA i : ps[i].state # Delete)]

\* remove_deleted line 396, then lines 420-422 after the first pass or
\* line 444 inside the recovery loop
RemoveDeletedRemove ==
    /\ pc = "remove"
    /\ particles_a' = remove(particles_a, particle)
    /\ IF inwhile
       THEN /\ pc' = "pass"
            /\ k' = 1
            /\ UNCHANGED <<error_particles, e, inwhile>>
       ELSE /\ error_particles' = ErrorParticles(particles_a', particle)
            /\ e' = 1
            /\ k' = k
            /\ pc' = IF error_particles' = <<>> THEN "returned" ELSE "recover"
            /\ inwhile' = (error_particles' # <<>>)
    /\ UNCHANGED <<inloop, particle, endtime, dt, output_file, pyfunc,
                   recovery, recovery_base_map, recovery_map, written,
                   metStop, particle0, unmapped,
                   forced, libVars, otherVars>>

\* lines 424-437: the body of the for loop for one error particle
Recover ==
    /\ pc = "recover"
    /\ e <= Len(error_particles)
    /\ LET i == error_particles[e]
           p == particle[i]
       IN  IF p.state = StopExecution
           THEN /\ pc' = "returned"
                /\ metStop' = TRUE
                /\ UNCHANGED <<particle, e, unmapped>>
           ELSE IF p.state = Repeat
           THEN /\ particle' = [particle EXCEPT ![i] = reset_state(p)]
                /\ e' = e + 1
                /\ UNCHANGED <<pc, metStop, unmapped>>
           ELSE IF Mapped(p.state)
           THEN \E run \in RecoveryRuns(recovery_map[p.state]) :
                   LET q == [p EXCEPT !.state = IF run.state = NoWrite
                                                THEN Success ELSE run.state,
                                      !.lon = IF run.lon = <<>> THEN @
                                              ELSE run.lon[1]]
                   IN  /\ IF run.raises
                          THEN /\ particle' = [particle EXCEPT ![i] = q]
                               /\ pc' = "raised"
                               /\ e' = e
                          ELSE /\ particle' = [particle EXCEPT ![i] =
                                      IF isComputed(q) THEN reset_state(q) ELSE q]
                               /\ pc' = pc
                               /\ e' = e + 1
                       /\ UNCHANGED <<metStop, unmapped>>
           ELSE /\ particle' = [particle EXCEPT ![i] = delete(p)]
                /\ unmapped' = unmapped \cup {i}
                /\ e' = e + 1
                /\ UNCHANGED <<pc, metStop>>
    /\ UNCHANGED <<inwhile, k, inloop, particles_a, error_particles, endtime,
                   dt, output_file, pyfunc, recovery, recovery_base_map,
                   recovery_map, written, particle0, forced, libVars, otherVars>>

\* line 440: the for loop is over
EndRecover ==
    /\ pc = "recover"
    /\ e > Len(error_particles)
    /\ pc' = "write"
    /\ UNCHANGED <<inwhile, k, inloop, particle, particles_a,
                   error_particles, e, endtime, dt, output_file, pyfunc,
                   recovery, recovery_base_map, recovery_map, written,
                   metStop, particle0, unmapped,
                   forced, libVars, otherVars>>

----------------------------------------------------------------------------
(* The library life cycle of one JIT Kernel *)

\* no call of execute is under way
ExecIdle ==
    /\ pc = "idle"
    /\ inwhile = FALSE
    /\ k = 1
    /\ inloop = FALSE
    /\ particle = <<>>
    /\ particles_a = <<>>
    /\ error_particles = <<>>
    /\ e = 1
    /\ endtime = 0
    /\ dt = 0
    /\ output_file = FALSE
    /\ pyfunc = "SampleField"
    /\ recovery = <<>>
    /\ recovery_base_map = BaseMap
    /\ recovery_map = BaseMap
    /\ written = <<>>
    /\ particle0 = <<>>
    /\ unmapped = {}
    /\ metStop = FALSE
    /\ forced = <<>>

\* __init__, lines 75-76 and 162-166
InitLib ==
    /\ ExecIdle
    /\ BuildIdle
    /\ MpiIdle
    /\ lib = <<>>
    /\ function = <<>>
    /\ clock = 0
    /\ basename = NewBasename
    /\ files = {}
    /\ opened = [b \in Basenames |-> 0]
    /\ alive = TRUE
    /\ delete_cfiles \in BOOLEAN
    /\ exc = "none"
    /\ called = <<>>

\* compile, lines 209-214: the source is written, then the compiler writes
\* its log and, unless it fails, the library
Compile ==
    /\ alive
    /\ clock < MaxClock
    /\ \E ok \in BOOLEAN :
          /\ files' = files \cup {src_file(basename), log_file(basename)}
                            \cup (IF ok THEN {lib_file(basename)} ELSE {})
          /\ exc' = IF ok THEN "none" ELSE "CompilationError"
    /\ clock' = clock + 1
    /\ UNCHANGED <<lib, function, basename, opened, alive, delete_cfiles,
                   called, execVars, otherVars>>

\* load_lib, lines 216-218
LoadLib ==
    /\ alive
    /\ OpenHandles(opened) < MaxOpen
    /\ IF isfile(lib_file(basename))
       THEN /\ opened' = [opened EXCEPT ![basename] = @ + 1]
            /\ lib' = <<basename>>
            /\ function' = <<basename>>
            /\ exc' = "none"
       ELSE /\ exc' = "OSError"
            /\ UNCHANGED <<opened, lib, function>>
    /\ UNCHANGED <<basename, files, alive, delete_cfiles, clock, called, execVars, otherVars>>

\* remove_lib, lines 186-207
RemoveLib ==
    /\ alive
    /\ opened' = Unloaded(opened)
    /\ lib' = <<>>
    /\ IF isfile(lib_file(basename))
       THEN LET r == RemoveFiles(files, <<src_file(basename),
                                         lib_file(basename),
                                         log_file(basename)>>)
            IN  /\ files' = r.files
                /\ basename' = IF r.ok THEN NewBasename ELSE basename
                /\ exc' = IF r.ok THEN "none" ELSE "FileNotFoundError"
       ELSE /\ exc' = "none"
            /\ UNCHANGED <<files, basename>>
    /\ UNCHANGED <<function, alive, delete_cfiles, clock, called, execVars, otherVars>>

\* __del__, lines 168-177
Del ==
    /\ alive
    /\ alive' = FALSE
    /\ IF lib # <<>>
       THEN /\ opened' = Unloaded(opened)
            /\ lib' = <<>>
            /\ IF isfile(lib_file(basename)) /\ delete_cfiles
               THEN LET r == RemoveFiles(files, <<src_file(basename),
                                                 lib_file(basename),
                                                 log_file(basename)>>)
                    IN  /\ files' = r.files
                        /\ exc' = IF r.ok THEN "none" ELSE "FileNotFoundError"
               ELSE /\ exc' = "none"
                    /\ UNCHANGED files
       ELSE /\ exc' = "none"
            /\ UNCHANGED <<opened, lib, files>>
    /\ UNCHANGED <<function, basename, delete_cfiles, clock, called, execVars, otherVars>>

\* execute_jit, lines 258-262, on a population with a sub-batch: the call of
\* self._function.  __init__ does not set the attribute, so that the call
\* raises AttributeError before the first load_lib; remove_lib and __del__
\* leave it bound in the handle they closed, and a call into a library that
\* is no longer mapped may run or end the process.
ExecuteJit ==
    /\ alive
    /\ IF function = <<>>
       THEN /\ exc' = "AttributeError"
            /\ UNCHANGED called
       ELSE /\ called' = <<[handle |-> function[1], loaded |-> lib = function]>>
            /\ exc' \in IF opened[function[1]] > 0 THEN {"none"}
                        ELSE {"none", "SegmentationFault"}
    /\ UNCHANGED <<lib, function, basename, files, opened, alive,
                   delete_cfiles, clock, execVars, otherVars>>

NextLib ==
    \/ Compile
    \/ LoadLib
    \/ RemoveLib
    \/ Del
    \/ ExecuteJit

SpecLib == InitLib /\ [][NextLib]_vars

----------------------------------------------------------------------------
(* Constructions and merges in one process *)

\* time.time() when an operation runs: the clock may have moved on
Now == {t \in {clock, clock + 1} : t <= MaxClock}

\* the record of an operation that ended as r
Outcome(op, r, argspec, agree) ==
    [op |-> op, exc |-> r.exc, generated |-> r.generated, argspec |-> argspec,
     agree |-> agree, added |-> r.kernel # <<>>]

\* the operands have the same particle type and the same field set
Agree(a, b) == a.ptype = b.ptype /\ a.fieldset = b.fieldset

\* the referenced objects after an operation made the objects of made: a
\* result nobody keeps a reference to is collected
Kept(ks, made) == IF Len(ks) < MaxKernels THEN ks \o made ELSE ks

InitBuild ==
    /\ ExecIdle
    /\ LibIdle
    /\ BuildIdle
    /\ MpiIdle

\* Kernel(fieldset, ptype, pyfunc=c, delete_cfiles=dcf), lines 71-166
Construct ==
    /\ Len(kernels) < MaxKernels
    /\ \E c \in Callables, o \in Owners, dcf \in BOOLEAN, now \in Now :
          LET r == FromCallable(o[1], o[2], c, dcf, now)
          IN  /\ kernels' = kernels \o r.kernel
              /\ last' = Outcome("construct", r, c.argspec, TRUE)
              /\ clock' = now
    /\ UNCHANGED <<lib, function, basename, files, opened, alive,
                   delete_cfiles, exc, called, execVars, mpiVars>>

\* a.merge(b), lines 451-460
Merge ==
    /\ \E i \in DOMAIN kernels, j \in DOMAIN kernels, now \in Now :
          LET a == kernels[i]
              b == kernels[j]
              r == merge(a, b, now)
          IN  /\ kernels' = Kept(kernels, r.kernel)
              /\ last' = Outcome("merge", r, a.argspec, Agree(a, b))
              /\ clock' = now
    /\ UNCHANGED <<lib, function, basename, files, opened, alive,
                   delete_cfiles, exc, called, execVars, mpiVars>>

\* a + c and c + a with c a plain function, lines 462-470: c is wrapped in a
\* Kernel of a's field set and particle type, then merged
Add ==
    /\ Len(kernels) < MaxKernels
    /\ \E i \in DOMAIN kernels, c \in Callables, right \in BOOLEAN,
          now \in Now :
          LET a == kernels[i]
              w == FromCallable(a.fieldset, a.ptype, c, TRUE, now)
              r == IF w.exc # "none" THEN w
                   ELSE IF right THEN merge(a, w.kernel[1], now)
                   ELSE merge(w.kernel[1], a, now)
          IN  /\ kernels' = kernels \o r.kernel
              /\ last' = Outcome("add", r, c.argspec, TRUE)
              /\ clock' = now
    /\ UNCHANGED <<lib, function, basename, files, opened, alive,
                   delete_cfiles, exc, called, execVars, mpiVars>>

NextBuild ==
    \/ Construct
    \/ Merge
    \/ Add

SpecBuild == InitBuild /\ [][NextBuild]_vars

----------------------------------------------------------------------------
(* Name resolution of one kernel on cooperating ranks, lines 155-160 and    *)
(* 194-207.  Every rank runs the same program: it compiles when its library *)
(* file is missing and calls remove_lib; bcast delivers the values of rank  *)
(* 0 to each rank in the order they were sent.  The identity rank 0         *)
(* computes in its n-th call of remove_lib is written n (every computation  *)
(* hashes a new time), the one of the construction 0.                       *)

NumRanks == 2       \* cooperating processes
MaxCalls == 2       \* calls of remove_lib a rank makes

Ranks == 0..(NumRanks - 1)

\* lines 160 and 201-206: the files of a rank that resolved its name from
\* identity key
rank_files(key, r) == Triad(<<key, r>>)

\* after the construction on every rank, lines 155-166: all ranks took part
\* in the broadcast of the constructor and hold the identity of rank 0
InitMPI ==
    /\ ExecIdle
    /\ LibIdle
    /\ BuildIdle
    /\ rank_pc = [r \in Ranks |-> "idle"]
    /\ rank_key = [r \in Ranks |-> [round |-> 0, at |-> 0]]
    /\ rank_lib = [r \in Ranks |-> FALSE]
    /\ chan = [r \in Ranks |-> <<>>]
    /\ calls = [r \in Ranks |-> 0]
    /\ eager \in BOOLEAN

\* compile on rank r, lines 209-214: the library file of the rank exists
RankCompile(r) ==
    /\ rank_pc[r] = "idle"
    /\ ~rank_lib[r]
    /\ rank_lib' = [rank_lib EXCEPT ![r] = TRUE]
    /\ UNCHANGED <<rank_pc, rank_key, chan, calls, eager,
                   execVars, libVars, buildVars>>

\* remove_lib on rank r up to the broadcast, lines 186-199: only a rank whose
\* library file exists removes its files and goes on to the broadcast
RankRemoveLib(r) ==
    /\ rank_pc[r] = "idle"
    /\ calls[r] < MaxCalls
    /\ calls' = [calls EXCEPT ![r] = @ + 1]
    /\ IF rank_lib[r]
       THEN /\ rank_lib' = [rank_lib EXCEPT ![r] = FALSE]
            /\ rank_pc' = [rank_pc EXCEPT ![r] = "bcast"]
       ELSE UNCHANGED <<rank_lib, rank_pc>>
    /\ UNCHANGED <<rank_key, chan, eager,
                   execVars, libVars, buildVars>>

\* lines 199-206 on rank 0: compute the identity, send it to the others
RootBcast ==
    /\ rank_pc[0] = "bcast"
    /\ rank_key' = [rank_key EXCEPT ![0] = [round |-> calls[0], at |-> calls[0]]]
    /\ chan' = [r \in Ranks |-> IF r = 0 THEN chan[r]
                                ELSE Append(chan[r], calls[0])]
    /\ rank_pc' = [rank_pc EXCEPT ![0] = IF eager THEN "idle" ELSE "sent"]
    /\ UNCHANGED <<rank_lib, calls, eager,
                   execVars, libVars, buildVars>>

\* line 200 on rank 0 when bcast returns only after the others have received
RootReturn ==
    /\ rank_pc[0] = "sent"
    /\ \A r \in Ranks : chan[r] = <<>>
    /\ rank_pc' = [rank_pc EXCEPT ![0] = "idle"]
    /\ UNCHANGED <<rank_key, rank_lib, chan, calls, eager,
                   execVars, libVars, buildVars>>

\* lines 200-206 on another rank: bcast returns the oldest value of rank 0
\* the rank has not received yet
RankRecv(r) ==
    /\ r # 0
    /\ rank_pc[r] = "bcast"
    /\ chan[r] # <<>>
    /\ rank_key' = [rank_key EXCEPT ![r] = [round |-> Head(chan[r]),
                                            at |-> calls[r]]]
    /\ chan' = [chan EXCEPT ![r] = Tail(@)]
    /\ rank_pc' = [rank_pc EXCEPT ![r] = "idle"]
    /\ UNCHANGED <<rank_lib, calls, eager,
                   execVars, libVars, buildVars>>

NextMPI ==
    \/ \E r \in Ranks : RankCompile(r)
    \/ \E r \in Ranks : RankRemoveLib(r)
    \/ RootBcast
    \/ RootReturn
    \/ \E r \in Ranks : RankRecv(r)

SpecMPI == InitMPI /\ [][NextMPI]_vars

----------------------------------------------------------------------------
Next ==
    \/ Execute
    \/ EnterParticle
    \/ InvokeKernel
    \/ EndPass
    \/ RemoveDeletedWrite
    \/ RemoveDeletedRemove
    \/ Recover
    \/ EndRecover

Spec == Init /\ [][Next]_vars

\* execute is sequential code: whenever it can take a step it takes one
FairSpec == Spec /\ WF_vars(Next)

----------------------------------------------------------------------------
(* Properties of execute *)

\* the particles of the population
Pset == {i \in DOMAIN particle : InPset(i)}

\* the map execute resolves from its inputs
InputMap == Resolved(recovery_base_map, FixedRecovery(recovery))

\* pyfunc is about to be invoked on particle i
Invoking(i) == pc = "pass" /\ inloop /\ Flat(particles_a)[k] = i

\* C1: when execute has an output collaborator, a particle marked Delete is
\* handed to output_file.write exactly once, it is written before it leaves
\* the population, and no particle in state Delete is in the population when
\* execute has returned.
C1_DeletedWrittenOnceThenGone ==
    output_file =>
        /\ \A i \in DOMAIN particle : written[i] <= 1
        /\ \A i \in DOMAIN particle : ~InPset(i) => written[i] = 1
        /\ pc = "returned" => \A i \in Pset : particle[i].state # Delete

\* C2: with a kernel that raises out-of-bounds on every call and the default
\* recovery kernel, which always completes, execute eventually returns.
C2_RecoveryLoopTerminates ==
    (pyfunc = "AlwaysOutOfBounds" /\ recovery = <<>>) => <>(pc = "returned")

\* C3: when a pass leaves some particle in StopExecution, the next step of
\* execute is its return: no error particle is dispatched to recovery and no
\* particle changes.
C3_StopAbortsAtOnce ==
    [][(/\ pc = "recover"
        /\ e = 1
        /\ \E j \in 1..Len(error_particles) :
              particle[error_particles[j]].state = StopExecution)
       => (pc' = "returned" /\ particle' = particle)]_vars

\* C4: a call with dt = 0 runs one forced pass, so that pyfunc is invoked
\* once on each particle, and when it has returned every particle of the
\* population has the time it had before the call.
C4_SingleForcedPass ==
    isclose(dt, 0) =>
        /\ ~(pc = "pass" /\ inwhile /\ inloop)
        /\ pc = "returned" =>
              \A i \in Pset : particle[i].time = particle0[i].time

\* the inputs of C5: a forward call, every particle before the horizon, a
\* kernel that raises nothing on any particle
NeverErrs ==
    /\ pyfunc = "SampleField"
    /\ \A i \in DOMAIN particle0 : particle0[i].lon = InRange
    /\ dt > 0
    /\ \A i \in DOMAIN particle0 : particle0[i].time < endtime

\* C5: with dt > 0, all particles starting before endtime and a kernel that
\* never errors, no particle time passes endtime, and when execute has
\* returned every particle is in the population in state Success with
\* time = endtime.
C5_AllReachEndtime ==
    NeverErrs =>
        /\ \A i \in DOMAIN particle : particle[i].time <= endtime
        /\ pc = "returned" =>
              \A i \in DOMAIN particle :
                  /\ InPset(i)
                  /\ particle[i].state = Success
                  /\ particle[i].time = endtime

C5_Witness ==
    /\ NeverErrs
    /\ pc = "returned"
    /\ Len(Flat(particles_a)) = NumParticles
    /\ particle0[1].time + dt < endtime
    /\ particle[1].time = endtime

\* the inputs of C6: the kernel raises out-of-bounds on particle i0 and on no
\* other particle, and out-of-bounds is mapped to the kernel that repairs
OnlyOutOfBounds(i0) ==
    /\ pyfunc = "SampleField"
    /\ i0 \in DOMAIN particle0
    /\ particle0[i0].lon = "out_of_bounds"
    /\ \A j \in DOMAIN particle0 \ {i0} : particle0[j].lon = InRange
    /\ InputMap[ErrorOutOfBounds] = "Repair"
    /\ isclose(dt, 0) \/ sign(endtime - particle0[i0].time) = sign(dt)

\* C6: when the kernel raises out-of-bounds on one particle only and the
\* recovery kernel repairs it, that particle is in state Success when execute
\* has returned, no other particle is dispatched to recovery, and a particle
\* that has reached endtime in state Success is not invoked again and does
\* not change.
C6_OthersUnaffected ==
    /\ [](\A i0 \in DOMAIN particle0 :
            OnlyOutOfBounds(i0) =>
                /\ pc = "returned" => particle[i0].state = Success
                /\ pc = "recover" =>
                      \A j \in 1..Len(error_particles) : error_particles[j] = i0
                /\ \A j \in DOMAIN particle \ {i0} :
                      (particle[j].state = Success /\ particle[j].time = endtime)
                          => ~Invoking(j))
    /\ [][\A i0 \in DOMAIN particle0 :
            OnlyOutOfBounds(i0) =>
                \A j \in DOMAIN particle \ {i0} :
                    (/\ pc # "call"
                     /\ particle[j].state = Success
                     /\ particle[j].time = endtime)
                        => particle'[j] = particle[j]]_vars

\* C7: a particle found in an error state without recovery entry
\* is marked Delete, handed to output_file.write exactly once and out of the
\* population when execute has returned, and the call goes on.
C7_UnmappedDeletedAndReported ==
    /\ [](/\ \A i \in unmapped : particle[i].state = Delete /\ written[i] <= 1
          /\ pc = "returned" =>
                \A i \in unmapped :
                    ~InPset(i) /\ (output_file => written[i] = 1))
    /\ [][unmapped' # unmapped => pc' = "recover"]_vars

\* C8: when execute returns without having met a particle in StopExecution,
\* no particle of the population is in state Repeat, Delete or an error
\* state.
C8_NoFailureLeft ==
    (pc = "returned" /\ ~metStop) =>
        \A i \in Pset : particle[i].state \notin {Repeat, Delete} \cup ErrorStates

C8_Witness ==
    /\ pc = "returned"
    /\ ~metStop
    /\ inwhile
    /\ pyfunc = "AnyKernel"
    /\ Pset # {}

----------------------------------------------------------------------------
(* Properties of the library life cycle *)

\* C9: the Kernel has at most one library handle opened and not closed.
C9_AtMostOneHandle == OpenHandles(opened) <= 1

\* C10: remove_lib raises nothing, and after it no handle is loaded and
\* none of the three files of the previous basename is left.
C10_RemoveLibCleans ==
    [][RemoveLib =>
          /\ exc' = "none"
          /\ OpenHandles(opened') = 0
          /\ files' \cap Triad(basename) = {}]_vars

\* C11: the destruction of the Kernel leaves no handle loaded, deletes the
\* source, library and log files when delete_cfiles is true and leaves every
\* file in place when it is false.
C11_TeardownCleans ==
    [][Del => /\ lib' = <<>>
              /\ delete_cfiles => files' \cap Triad(basename) = {}
              /\ ~delete_cfiles => files' = files]_vars

\* C24: every call of the entry point is made while the library handle the
\* entry point was resolved from is the one the Kernel has loaded.
C24_CallsLoadedEntryPoint == called # <<>> => called[1].loaded

----------------------------------------------------------------------------
(* Properties of the recovery map *)

\* C13: no step of execute changes the system's default recovery map or the
\* mapping the caller passed as recovery.
C13_MapsUntouched ==
    [][recovery' = recovery /\ recovery_base_map' = recovery_base_map]_vars

\* the recovery kernel the caller gave for state s
Supplied(rec, s) == IF rec = <<>> THEN Absent ELSE rec[1][s]

\* C14: the map execute resolves sends ErrorThroughSurface to the caller's
\* through-surface kernel when the caller gave one and to the kernel of
\* ErrorOutOfBounds otherwise, and that map stays as resolved for the rest
\* of the call.
C14_SurfaceFollowsOutOfBounds ==
    /\ [][pc = "call" =>
            recovery_map'[ErrorThroughSurface] =
                IF Supplied(recovery, ErrorThroughSurface) # Absent
                THEN Supplied(recovery, ErrorThroughSurface)
                ELSE recovery_map'[ErrorOutOfBounds]]_vars
    /\ [][pc # "call" => recovery_map' = recovery_map]_vars

C14_Witness ==
    /\ pc = "recover"
    /\ e <= Len(error_particles)
    /\ particle[error_particles[e]].state = ErrorThroughSurface
    /\ recovery_map[ErrorThroughSurface] = "AnyRecovery"
    /\ recovery_base_map[ErrorThroughSurface] = "Repair"

----------------------------------------------------------------------------
(* Properties of one interpreted pass *)

\* C19: with dt # 0, a particle the pass comes to while the sign of
\* endtime - particle.time disagrees with the sign of dt is marked Success
\* and pyfunc is not invoked on it.
C19_OvershotMarkedSuccess ==
    [][\A i \in DOMAIN particle :
          (/\ pc = "pass"
           /\ ~inloop
           /\ k <= Len(Flat(particles_a))
           /\ Flat(particles_a)[k] = i
           /\ ~isclose(dt, 0)
           /\ sign(endtime - particle[i].time) # sign(dt))
          => (particle'[i].state = Success /\ ~inloop')]_vars

\* C20: when the body of pyfunc has set the particle's state to Delete or to
\* an error state and returns, the outcome of the invocation is that state,
\* whatever the value returned.
C20_OwnStateWins ==
    \A i \in DOMAIN particle :
        Invoking(i) =>
            \A run \in KernelRuns(pyfunc, particle[i]) :
                LET pdt_prekernels == sign(dt) * DtPos(particle[i])
                    after == Body([particle[i] EXCEPT !.dt = pdt_prekernels], run)
                IN  (/\ run.state \in {Delete} \cup ErrorStates
                     /\ run.ret \notin Exceptions)
                        => Res(run, after, particle[i].state, pdt_prekernels)
                               = run.state

\* C21: an invocation that returns Success with the particle's state left
\* alone and its dt changed from the step set before the call ends in Repeat
\* with the particle's time not advanced, and afterwards the kernel is
\* invoked on the particle again, at the same time, with a step of the size
\* the kernel set, clamped to what is left before endtime.
C21_RerunAtKernelStep ==
    /\ [](\A i \in DOMAIN particle :
             Invoking(i) =>
                 \A run \in KernelRuns(pyfunc, particle[i]) :
                     ForcedRepeat(particle[i], run)
                         => /\ Iteration(particle[i], run).state = Repeat
                            /\ Iteration(particle[i], run).time = particle[i].time
                            /\ ~Continues(particle[i], run))
    /\ \A i \in 1..NumParticles :
          (i \in DOMAIN forced /\ forced[i] # <<>> /\ ~Invoking(i))
              ~> (/\ Invoking(i)
                  /\ forced[i] # <<>>
                  /\ particle[i].time = forced[i][1].time
                  /\ abs(sign(dt) * DtPos(particle[i]))
                         = min(abs(forced[i][1].dt),
                               abs(endtime - forced[i][1].time)))

\* C22: an invocation whose outcome is neither Success nor Delete leaves the
\* particle with the time and the position it had before the invocation and
\* with the outcome as its state, and the pass goes on to the next particle.
C22_RolledBackAndLeft ==
    \A i \in DOMAIN particle :
        Invoking(i) =>
            \A run \in KernelRuns(pyfunc, particle[i]) :
                LET p == particle[i]
                    pdt_prekernels == sign(dt) * DtPos(p)
                    after == Body([p EXCEPT !.dt = pdt_prekernels], run)
                    res == Res(run, after, p.state, pdt_prekernels)
                    left == Iteration(p, run)
                IN  res \notin {Success, Delete}
                        => /\ left.time = p.time
                           /\ left.lon = p.lon
                           /\ left.state = res
                           /\ ~Continues(p, run)

\* the first pass has left particle 1, which the kernel gave a new step size
\* before it returned StopExecution, and has gone on
C22_Witness ==
    /\ pyfunc = "AnyKernel"
    /\ pc = "pass"
    /\ ~inwhile
    /\ ~inloop
    /\ k = 2
    /\ particle[1].state = StopExecution
    /\ particle[1].dt = 2
    /\ dt = 1
    /\ particle[1].time = particle0[1].time

----------------------------------------------------------------------------
(* Properties of the recovery loop *)

\* particle i was dispatched by the last for loop over error_particles
Dispatched(i) ==
    \E j \in 1..Len(error_particles) : error_particles[j] = i

\* the recovery kernel of particle i ran in the last for loop and did not
\* complete: the particle was not reset to Evaluate
Pending(i) ==
    /\ Dispatched(i)
    /\ i \notin unmapped
    /\ particle[i].state # Evaluate

\* C23: a particle whose mapped recovery kernel has run is reset to Evaluate
\* only when the recovery kernel completed; a particle it did not complete
\* on is not invoked in the pass that follows and is in the error particles
\* of the next iteration of the recovery loop.
C23_PendingUntilRecovered ==
    /\ [][\A i \in DOMAIN particle :
             (/\ pc = "recover"
              /\ e <= Len(error_particles)
              /\ error_particles[e] = i
              /\ Mapped(particle[i].state)
              /\ e' = e + 1)
                 => particle'[i].state # Success]_vars
    /\ [][\A i \in DOMAIN particle :
             (/\ pc = "pass"
              /\ inwhile
              /\ ~inloop
              /\ k <= Len(Flat(particles_a))
              /\ Flat(particles_a)[k] = i
              /\ Pending(i))
                 => ~inloop']_vars
    /\ [][\A i \in DOMAIN particle :
             (/\ pc = "pass"
              /\ inwhile
              /\ ~inloop
              /\ k > Len(Flat(particles_a))
              /\ Dispatched(i)
              /\ i \notin unmapped
              /\ ~InPset(i) \/ particle[i].state \notin {Evaluate, Success})
                 => \E j \in 1..Len(error_particles') :
                        error_particles'[j] = i]_vars

----------------------------------------------------------------------------
(* Properties of construction and merge *)

\* the inputs of the cache identity of a kernel: its name, the cache key of
\* its particle type and its field arguments
IdentityInputs(kn) == <<kn.name, kn.ptype.cache_key, field_args(kn.body)>>

\* C15: two kernels whose identities were computed from the same name, the
\* same particle-type cache key and the same field arguments, at any two
\* moments, have the same identity, and two kernels that differ in one of
\* these have different identities.
C15_IdentityDeterministic ==
    \A i \in DOMAIN kernels, j \in DOMAIN kernels :
        (kernels[i].key # <<>> /\ kernels[j].key # <<>>)
            => (IdentityInputs(kernels[i]) = IdentityInputs(kernels[j])
                    <=> kernels[i].key = kernels[j].key)

\* what C16 compares of a kernel: name, statements, variables, delete flag
Shape(kn) ==
    [name |-> kn.name, body |-> kn.body, funcvars |-> kn.funcvars,
     delete_cfiles |-> kn.delete_cfiles]

\* a + b for two kernels
Sum(a, b) == merge(a, b, clock).kernel[1]

\* (a+b)+c and a+(b+c) agree in name, statements, variables and delete flag,
\* and their statements are a's, then b's, then c's
Associative(a, b, c) ==
    /\ Shape(Sum(Sum(a, b), c)) = Shape(Sum(a, Sum(b, c)))
    /\ Sum(Sum(a, b), c).body = a.body \o b.body \o c.body

\* C16 as stated: merge is associative and order-preserving for kernels of
\* one particle type and field set, and a+b differs from b+a whenever a
\* differs from b.
C16_DiffersWheneverOperandsDiffer ==
    \A i \in DOMAIN kernels, j \in DOMAIN kernels, l \in DOMAIN kernels :
        LET a == kernels[i]
            b == kernels[j]
            c == kernels[l]
        IN  (Agree(a, b) /\ Agree(b, c))
                => /\ Associative(a, b, c)
                   /\ a # b => Shape(Sum(a, b)) # Shape(Sum(b, a))

\* C16, amended: merge is associative and order-preserving for kernels of
\* one particle type and field set, and a+b differs from b+a whenever a and
\* b have equally many statements and differ in them.
C16_MergeAssociativeOrdered ==
    \A i \in DOMAIN kernels, j \in DOMAIN kernels, l \in DOMAIN kernels :
        LET a == kernels[i]
            b == kernels[j]
            c == kernels[l]
        IN  (Agree(a, b) /\ Agree(b, c))
                => /\ Associative(a, b, c)
                   /\ (Len(a.body) = Len(b.body) /\ a.body # b.body)
                          => Shape(Sum(a, b)) # Shape(Sum(b, a))

\* two kernels of one particle type and field set, with different statements
\* and different delete flags, have been merged
C16_Witness ==
    /\ last.op = "merge"
    /\ last.added
    /\ \E i \in DOMAIN kernels, j \in DOMAIN kernels :
          /\ Agree(kernels[i], kernels[j])
          /\ Len(kernels[i].body) = Len(kernels[j].body)
          /\ kernels[i].body # kernels[j].body
          /\ kernels[i].delete_cfiles # kernels[j].delete_cfiles

\* C17: a merge of two kernels whose particle types or field sets differ
\* fails with an incompatible-kernel error and makes no kernel; a merge
\* makes a kernel only when both agree.
C17_MergeChecksOperands ==
    last.op = "merge"
        => /\ last.added <=> last.agree
           /\ ~last.agree => last.exc = "IncompatibleKernelError"

\* C18: a construction from a function whose number of parameters is not
\* three fails with the arity error, makes no kernel and does not reach the
\* code generators, with a JIT particle type or without.
C18_ArityCheckedFirst ==
    (last.op \in {"construct", "add"} /\ Len(Parameters(last.argspec)) # 3)
        => /\ last.exc = "AssertionError"
           /\ ~last.generated
           /\ ~last.added

----------------------------------------------------------------------------
(* Properties of the name resolution on cooperating ranks *)

\* rank r waits in the broadcast of a call that rank 0 has already finished
\* without a value left for r
Stranded(r) ==
    /\ rank_pc[r] = "bcast"
    /\ chan[r] = <<>>
    /\ rank_pc[0] = "idle"
    /\ calls[0] >= calls[r]

\* C12: after the construction and any calls of remove_lib, with library
\* files that exist on some ranks and not on others, no rank is left waiting
\* in a name resolution, a name resolved in a rank's n-th call is built from
\* the identity rank 0 computed in its n-th call, and the files of two ranks
\* are different.
C12_RanksResolveTogether ==
    /\ \A r \in Ranks : ~Stranded(r)
    /\ \A r \in Ranks : rank_key[r].round = rank_key[r].at
    /\ \A r \in Ranks, q \in Ranks :
          r # q => rank_files(rank_key[r].round, r)
                       \cap rank_files(rank_key[q].round, q) = {}

====
